---------------------------- MODULE Spec2Model ----------------------------
(***************************************************************************)
(* A model of the Netflix titles assistant (src/streamlit_app.py and the   *)
(* batch script src/responsesAI.py): the query rewriter, the query         *)
(* executor, the ticket store and the ticket path of the agent.            *)
(*                                                                         *)
(* Text is modelled at character level: a Python str or an SQL text value  *)
(* is a sequence of one-character strings.                                 *)
(***************************************************************************)
EXTENDS Integers, Sequences, FiniteSets, TLC

VARIABLES
    sql,          \* the candidate SQL text handed to the rewriter
    nres,         \* outcome of _normalise_query(sql)
    ares,         \* safe_query computed by ask_database(sql) in responsesAI.py
    directors,    \* a value of the directors column (NULL or text)
    synth,        \* the text the replacement expression evaluates to
    matching,     \* how many rows of the dataset the executed statement produces
    conns,        \* every database connection opened so far, in order
    execOut,      \* outcome of the last query execution
    engineLog,    \* every statement handed to the dataset engine, in order
    clock,        \* the UTC wall clock: seconds since the epoch and microseconds
    advances,     \* how often the clock has been advanced
    ticketFile,   \* data/support_tickets.csv: whether it exists, and its text
    ticketCache,  \* the st.cache_data entry of load_recent_tickets
    tickets,      \* every ticket create_support_ticket has returned, in order
    listing,      \* what the last script run listed under "Recent support tickets"
    agentResult,  \* what the last run_agent call returned
    pc,           \* where the current run_agent invocation stands
    runs,         \* how many run_agent invocations have started
    question,     \* the question the current invocation was called with
    messages,     \* run_agent's local conversation list
    assistant_message, \* choice["message"] of the first response
    toolOut,      \* what the tool of this invocation produced
    modelCalls,   \* the chat_completion_request calls of this invocation, in order
    toolRuns,     \* the tools this invocation has called, in order
    outcome,      \* how the invocation ended: a returned dict or an exception
    atStart,      \* the ticket file and the engine's log when the invocation started
    writers,      \* concurrent create_support_ticket calls: position and locals
    completed     \* the lines written by the calls that have returned, in order

normVars  == <<sql, nres, ares>>
synthVars == <<directors, synth>>
execVars  == <<matching, conns, execOut, engineLog>>
ticketVars == <<clock, advances, ticketFile, ticketCache, tickets, listing, agentResult>>
agentVars == <<pc, runs, question, messages, assistant_message, toolOut,
               modelCalls, toolRuns, outcome, atStart>>
writerVars == <<writers, completed>>
vars      == <<sql, nres, ares, directors, synth, matching, conns, execOut, engineLog,
               clock, advances, ticketFile, ticketCache, tickets, listing, agentResult,
               pc, runs, question, messages, assistant_message, toolOut,
               modelCalls, toolRuns, outcome, atStart, writers, completed>>

(***************************************************************************)
(* Bounds of the model.                                                    *)
(***************************************************************************)
MaxFrags == 3       \* an input SQL text is built from at most this many fragments
MaxDirLen == 4      \* length of a directors value, in characters
MaxCalls == 2       \* query executions in one run of the model
MaxExtraRows == 3   \* a query produces at most MAX_ROWS + MaxExtraRows rows
MaxTickets == 2     \* tickets created in one run of the model
MaxAdvances == 2    \* clock advances in one run of the model

(***************************************************************************)
(* Character-level helpers: the str methods the code uses.                 *)
(***************************************************************************)
\* The characters str.strip() removes (ASCII whitespace).
Whitespace == {" ", "\t", "\n", "\r", "\f"}

UpperChars == <<"A","B","C","D","E","F","G","H","I","J","K","L","M",
                "N","O","P","Q","R","S","T","U","V","W","X","Y","Z">>
LowerChars == <<"a","b","c","d","e","f","g","h","i","j","k","l","m",
                "n","o","p","q","r","s","t","u","v","w","x","y","z">>

\* str.lower() on one character.
LowerChar(c) ==
    IF \E i \in 1..26 : UpperChars[i] = c
    THEN LowerChars[CHOOSE i \in 1..26 : UpperChars[i] = c]
    ELSE c

\* str.lower()
Lower(s) == [i \in 1..Len(s) |-> LowerChar(s[i])]

RECURSIVE LStrip(_)
LStrip(s) ==
    IF s # <<>> /\ Head(s) \in Whitespace THEN LStrip(Tail(s)) ELSE s

RECURSIVE RStrip(_)
RStrip(s) ==
    IF s # <<>> /\ s[Len(s)] \in Whitespace
    THEN RStrip(SubSeq(s, 1, Len(s) - 1))
    ELSE s

\* str.strip()
Strip(s) == RStrip(LStrip(s))

\* str.startswith(prefix)
StartsWith(s, prefix) ==
    Len(s) >= Len(prefix) /\ SubSeq(s, 1, Len(prefix)) = prefix

\* whether old occurs in s at position i
MatchAt(s, old, i) ==
    i + Len(old) - 1 <= Len(s) /\ SubSeq(s, i, i + Len(old) - 1) = old

\* The position of the leftmost occurrence of old in s at or after
\* position i, or 0 when there is none (str.find).
FindFrom(s, old, i) ==
    LET hits == {k \in i..(Len(s) - Len(old) + 1) : MatchAt(s, old, k)}
    IN  IF hits = {} THEN 0
        ELSE CHOOSE k \in hits : \A h \in hits : k <= h

\* str.replace(old, new) for a non-empty old: the occurrences are found
\* from the left and do not overlap; the replaced text is not rescanned.
RECURSIVE ReplaceFrom(_, _, _, _)
ReplaceFrom(s, old, new, i) ==
    LET k == FindFrom(s, old, i)
    IN  IF k = 0 THEN SubSeq(s, i, Len(s))
        ELSE SubSeq(s, i, k - 1) \o new \o ReplaceFrom(s, old, new, k + Len(old))

Replace(s, old, new) == ReplaceFrom(s, old, new, 1)

\* str.count(c) for a one-character c
Count(s, c) == Cardinality({i \in 1..Len(s) : s[i] = c})

(***************************************************************************)
(* QueryRewriter: _normalise_query, and the same rewrite in ask_database.  *)
(***************************************************************************)
RawDirect ==
    <<"j","s","o","n","_","e","a","c","h","(","d","i","r","e","c","t","o","r","s",")">>

RawIfnull ==
    <<"j","s","o","n","_","e","a","c","h","(","I","F","N","U","L","L","(",
      "d","i","r","e","c","t","o","r","s",","," ","'","'",")",")">>

\* '["' || REPLACE(REPLACE(IFNULL(directors, ''), '"', ''), ',', '","') || '"]'
replacement ==
    <<"'","[","\"","'"," ","|","|"," ","R","E","P","L","A","C","E","(",
      "R","E","P","L","A","C","E","(","I","F","N","U","L","L","(",
      "d","i","r","e","c","t","o","r","s",","," ","'","'",")",","," ",
      "'","\"","'",","," ","'","'",")",","," ","'",",","'",","," ",
      "'","\"",",","\"","'",")"," ","|","|"," ","'","\"","]","'">>

JsonEachOpen == <<"j","s","o","n","_","e","a","c","h","(">>

\* f"json_each({replacement})"
SafeExpansion == JsonEachOpen \o replacement \o <<")">>

KwSelect == <<"s","e","l","e","c","t">>
KwWith == <<"w","i","t","h">>

Ok(v) == [kind |-> "ok", value |-> v, msg |-> ""]
Raise(k, m) == [kind |-> k, value |-> <<>>, msg |-> m]
NotRun == [kind |-> "none", value |-> <<>>, msg |-> ""]

\* A faulty variant: the IFNULL form is left as it is.
RewriteDirectOnly(s) == Replace(s, RawDirect, SafeExpansion)

\* The two str.replace calls, in the code's order.
Rewrite(s) ==
    Replace(Replace(s, RawDirect, SafeExpansion), RawIfnull, SafeExpansion)

\* A faulty variant: the separators are counted with a wrong threshold.
TooManyStatementsLax(s) == Count(Strip(s), ";") > 2

\* safe_sql.strip().count(";") > 1
TooManyStatements(s) == Count(Strip(s), ";") > 1

_normalise_query(s) ==
    IF s = <<>> THEN Raise("ValueError", "Empty SQL query.")
    ELSE LET stripped == Strip(s)
             lowered  == Lower(stripped)
         IN  IF ~(StartsWith(lowered, KwSelect) \/ StartsWith(lowered, KwWith))
             THEN Raise("ValueError",
                        "Only SELECT statements (optionally starting with WITH) are allowed.")
             ELSE LET safe_sql == Rewrite(stripped)
                  IN  IF TooManyStatements(safe_sql)
                      THEN Raise("ValueError", "Multiple statements are not allowed.")
                      ELSE Ok(safe_sql)

\* The text ask_database hands to conn.execute: the same two replacements,
\* on the query as given (no trimming, no validation).
ask_database_safe_query(query) == Rewrite(query)

(***************************************************************************)
(* The inputs of the rewriter: texts built from fragments that make the    *)
(* raw patterns occur whole, adjacent, nested and split across fragments.  *)
(***************************************************************************)
Fragments ==
    { <<"S","e","l","e","c","t"," ","1">>,
      <<"W","I","T","H">>,
      <<" ">>,
      <<";">>,
      RawDirect,
      RawIfnull,
      JsonEachOpen,
      <<"d","i","r","e","c","t","o","r","s",")">>,
      <<"I","F","N","U","L","L","(","d","i","r","e","c","t","o","r","s",","," ","'","'",")",")">>,
      <<"d","r","o","p"," ","t">> }

RECURSIVE Texts(_)
Texts(n) ==
    IF n = 0 THEN {<<>>}
    ELSE LET shorter == Texts(n - 1)
         IN  shorter \cup {t \o f : t \in shorter, f \in Fragments}

(***************************************************************************)
(* The value of the replacement expression, as the dataset engine          *)
(* evaluates it for one row:                                               *)
(*   '["' || REPLACE(REPLACE(IFNULL(directors, ''), '"', ''), ',', '","')  *)
(*        || '"]'                                                          *)
(***************************************************************************)
\* An SQL value is NULL or a text.
SqlNull == [null |-> TRUE, text |-> <<>>]
SqlText(t) == [null |-> FALSE, text |-> t]

\* IFNULL(x, y)
SqlIfNull(x, y) == IF x.null THEN y ELSE x

\* REPLACE(x, y, z): every occurrence of y in x, from the left; NULL when
\* an argument is NULL
SqlReplace(x, y, z) ==
    IF x.null \/ y.null \/ z.null THEN SqlNull
    ELSE SqlText(Replace(x.text, y.text, z.text))

\* x || y: NULL when an operand is NULL
SqlConcat(x, y) ==
    IF x.null \/ y.null THEN SqlNull ELSE SqlText(x.text \o y.text)

SynthesizedJson(d) ==
    SqlConcat(
        SqlConcat(SqlText(<<"[", "\"">>),
                  SqlReplace(SqlReplace(SqlIfNull(d, SqlText(<<>>)),
                                        SqlText(<<"\"">>), SqlText(<<>>)),
                             SqlText(<<",">>), SqlText(<<"\"", ",", "\"">>))),
        SqlText(<<"\"", "]">>))

\* The characters a directors value is drawn from: letters, the comma, the
\* double quote and the backslash.
DirAlphabet == {"a", "b", ",", "\"", "\\"}

RECURSIVE TextsOver(_, _)
TextsOver(alphabet, n) ==
    IF n = 0 THEN {<<>>}
    ELSE LET shorter == TextsOver(alphabet, n - 1)
         IN  shorter \cup {Append(t, c) : t \in shorter, c \in alphabet}

(***************************************************************************)
(* QueryExecutor: execute_query (streamlit_app.py) and ask_database        *)
(* (responsesAI.py).  The dataset engine is opaque: for a statement it     *)
(* either fails or produces some number of rows, in its own order.         *)
(***************************************************************************)
MAX_ROWS == 200

Min(a, b) == IF a <= b THEN a ELSE b

\* The rows a query produces: row i is the tuple <<i>>.
EngineRows(n) == [i \in 1..n |-> <<i>>]

\* What may happen to a statement: the connection cannot be made, the
\* engine rejects the statement, or it produces its rows.
EngineOutcomes == {"connect_error", "error", "rows"}

\* A faulty variant: the fetch takes every remaining row (fetchall).
FetchAll(cur, size) ==
    [rows |-> SubSeq(cur.rows, cur.pos + 1, Len(cur.rows)),
     cur  |-> [cur EXCEPT !.pos = Len(cur.rows)]]

\* cursor.fetchmany(size): the next size rows, fewer at the end
FetchMany(cur, size) ==
    LET last == Min(cur.pos + size, Len(cur.rows))
    IN  [rows |-> SubSeq(cur.rows, cur.pos + 1, last),
         cur  |-> [cur EXCEPT !.pos = last]]

\* cursor.fetchone(): the next row, or None (the empty tuple stands for it:
\* both are falsy, and no row of a result is empty)
FetchOne(cur) ==
    IF cur.pos < Len(cur.rows)
    THEN [row |-> cur.rows[cur.pos + 1], cur |-> [cur EXCEPT !.pos = cur.pos + 1]]
    ELSE [row |-> <<>>, cur |-> cur]

\* truth value of a tuple
Truthy(t) == Len(t) > 0

\* rows[:k]
SliceTo(rows, k) == SubSeq(rows, 1, Min(k, Len(rows)))

NoExec == [fn |-> "none", kind |-> "none", produced |-> 0, rows |-> <<>>, warned |-> FALSE]

\* The body of the with block of execute_query, from cursor.execute on, for
\* a statement that produces n rows.
execute_query_fetch(n) ==
    LET cur0    == [rows |-> EngineRows(n), pos |-> 0]
        many    == FetchMany(cur0, MAX_ROWS)
        one     == FetchOne(many.cur)
        warned  == Truthy(one.row)
        rows    == IF warned THEN SliceTo(many.rows, MAX_ROWS) ELSE many.rows
    IN  [fn |-> "execute_query", kind |-> "ok", produced |-> n,
         rows |-> rows, warned |-> warned]

\* A connection object: whether it is open, who opened it, and whether a
\* frame or a traceback still refers to it.
Conn(by, state, held) == [by |-> by, state |-> state, held |-> held]

\* An entry of the engine's log: who handed it which statement.
Sent(by, statement) == [by |-> by, statement |-> statement]

\* The names in cursor.description: the statements of this model produce
\* one column.
EngineColumns == << <<"n">> >>

\* The with block of execute_query for the statement safe_sql.
\* Connection.__exit__ commits or rolls back and leaves the connection
\* open; nothing in the function closes it.  On return the locals are
\* dropped and the object is finalized (closed) at once under reference
\* counting, or later; on an exception the traceback keeps the frame, and
\* with it the connection, alive.
execute_statement(safe_sql, eng) ==
    CASE eng = "connect_error" ->
            /\ execOut' = [NoExec EXCEPT !.fn = "execute_query", !.kind = "sqlite3.Error"]
            /\ conns' = conns
            /\ engineLog' = engineLog
      [] eng = "error" ->
            /\ execOut' = [NoExec EXCEPT !.fn = "execute_query", !.kind = "sqlite3.Error"]
            /\ conns' = Append(conns, Conn("execute_query", "open", TRUE))
            /\ engineLog' = Append(engineLog, Sent("execute_query", safe_sql))
      [] OTHER ->
            /\ execOut' = execute_query_fetch(matching)
            /\ \E st \in {"open", "closed"} :
                  conns' = Append(conns, Conn("execute_query", st, FALSE))
            /\ engineLog' = Append(engineLog, Sent("execute_query", safe_sql))

\* What execute_query leaves behind when _normalise_query raises.
NotNormalised(norm) == [NoExec EXCEPT !.fn = "execute_query", !.kind = norm.kind]

\* execute_query(q)
execute_query(q, eng) ==
    /\ sql' = q
    /\ LET norm == _normalise_query(q)
       IN  IF norm.kind # "ok"
           THEN /\ execOut' = NotNormalised(norm)
                /\ conns' = conns
                /\ engineLog' = engineLog
           ELSE execute_statement(norm.value, eng)

\* A call of execute_query(q) on its own.
ExecuteQuery(q, eng) ==
    /\ Len(conns) < MaxCalls
    /\ execute_query(q, eng)
    /\ UNCHANGED <<nres, ares, synthVars, matching, ticketVars, agentVars, writerVars>>

\* The caller's except clause ends (run_agent returns its error result): the
\* traceback, and its reference to the connection, is dropped.
HandlerDone ==
    /\ \E i \in 1..Len(conns) : conns[i].held
    /\ conns' = [i \in 1..Len(conns) |-> [conns[i] EXCEPT !.held = FALSE]]
    /\ UNCHANGED <<execOut, matching, engineLog, normVars, synthVars, ticketVars,
                   agentVars, writerVars>>

\* The finalizer of an unreferenced connection object closes it.
Finalize(i) ==
    /\ conns[i].state = "open"
    /\ ~conns[i].held
    /\ conns' = [conns EXCEPT ![i].state = "closed"]
    /\ UNCHANGED <<execOut, matching, engineLog, normVars, synthVars, ticketVars,
                   agentVars, writerVars>>

\* ask_database(q): the rewrite, conn.execute(...).fetchall(), and
\* conn.close() in the finally clause when a connection was made.
AskDatabase(q, eng) ==
    /\ Len(conns) < MaxCalls
    /\ sql' = q
    /\ CASE eng = "connect_error" ->
               /\ execOut' = [NoExec EXCEPT !.fn = "ask_database", !.kind = "Exception"]
               /\ conns' = conns
               /\ engineLog' = engineLog
         [] eng = "error" ->
               /\ execOut' = [NoExec EXCEPT !.fn = "ask_database", !.kind = "Exception"]
               /\ conns' = Append(conns, Conn("ask_database", "closed", FALSE))
               /\ engineLog' = Append(engineLog,
                                      Sent("ask_database", ask_database_safe_query(q)))
         [] OTHER ->
               /\ execOut' = [fn |-> "ask_database", kind |-> "ok", produced |-> matching,
                              rows |-> EngineRows(matching), warned |-> FALSE]
               /\ conns' = Append(conns, Conn("ask_database", "closed", FALSE))
               /\ engineLog' = Append(engineLog,
                                      Sent("ask_database", ask_database_safe_query(q)))
    /\ UNCHANGED <<nres, ares, synthVars, matching, ticketVars, agentVars, writerVars>>

\* The statements handed to the executor in this model.
ExecQueries ==
    { <<"S","e","l","e","c","t"," ","1">>,
      <<"d","r","o","p"," ","t">> }

(***************************************************************************)
(* TicketStore: _ensure_ticket_store, create_support_ticket and            *)
(* load_recent_tickets, the ticket path of run_agent, and the script runs  *)
(* of the dashboard that use them.                                         *)
(***************************************************************************)
\* The clock starts at 2026-11-06T00:00:00 UTC and stays within that day.
StartEpoch == 1793923200

MicrosPerSecond == 1000000

\* How far the clock may move in one advance: just under a second, a whole
\* second (a microsecond may pass inside create_support_ticket).
TimeSteps == {999999, 1000000}

AddMicros(t, d) ==
    LET total == t.us + d
    IN  [s |-> t.s + (total \div MicrosPerSecond), us |-> total % MicrosPerSecond]

DigitChars == <<"0","1","2","3","4","5","6","7","8","9">>

\* str(n) for n >= 0
RECURSIVE Decimal(_)
Decimal(n) ==
    IF n < 10 THEN <<DigitChars[n + 1]>>
    ELSE Decimal(n \div 10) \o <<DigitChars[(n % 10) + 1]>>

\* n in decimal, zero-padded to w digits
RECURSIVE Padded(_, _)
Padded(n, w) ==
    IF w = 0 THEN <<>> ELSE Padded(n \div 10, w - 1) \o <<DigitChars[(n % 10) + 1]>>

\* datetime.isoformat() of a moment of 2026-11-06: the microseconds are
\* written only when they are not zero.
IsoFormat(t) ==
    LET secs == t.s - StartEpoch
    IN  <<"2","0","2","6","-","1","1","-","0","6","T">>
        \o Padded(secs \div 3600, 2) \o <<":">>
        \o Padded((secs % 3600) \div 60, 2) \o <<":">>
        \o Padded(secs % 60, 2)
        \o (IF t.us = 0 THEN <<>> ELSE <<".">> \o Padded(t.us, 6))

\* f"T-{int(datetime.utcnow().timestamp())}": the whole seconds of the moment
TicketId(t) == <<"T", "-">> \o Decimal(t.s)

TicketHeader ==
    <<"t","i","c","k","e","t","_","i","d",",","t","i","t","l","e",",",
      "d","e","s","c","r","i","p","t","i","o","n",",","p","r","i","o","r","i","t","y",",",
      "c","r","e","a","t","e","d","_","a","t","\n">>

NoFile == [exists |-> FALSE, content |-> <<>>]

\* _ensure_ticket_store(): writes the header when the file does not exist
_ensure_ticket_store(file) ==
    IF file.exists THEN file ELSE [exists |-> TRUE, content |-> TicketHeader]

\* x.replace("\n", " ").replace(",", " ")
Sanitize(x) == Replace(Replace(x, <<"\n">>, <<" ">>), <<",">>, <<" ">>)

\* create_support_ticket(title, description, priority), with the clock at t1
\* for the timestamp and at t2 for the identifier: the file after the
\* append, the line written and the ticket returned.
create_support_ticket(file, title, description, priority, t1, t2) ==
    LET store       == _ensure_ticket_store(file)
        timestamp   == IsoFormat(t1)
        ticket_id   == TicketId(t2)
        line        == ticket_id \o <<",">> \o Sanitize(title) \o <<",">>
                       \o Sanitize(description) \o <<",">> \o priority \o <<",">>
                       \o timestamp \o <<"\n">>
    IN  [file   |-> [store EXCEPT !.content = store.content \o line],
         line   |-> line,
         ticket |-> [ticket_id |-> ticket_id, title |-> title,
                     priority |-> priority, created_at |-> timestamp]]

\* s split at every c
RECURSIVE SplitAt(_, _)
SplitAt(s, c) ==
    LET hits == {k \in 1..Len(s) : s[k] = c}
    IN  IF hits = {} THEN <<s>>
        ELSE LET k == CHOOSE h \in hits : \A g \in hits : h <= g
             IN  <<SubSeq(s, 1, k - 1)>> \o SplitAt(SubSeq(s, k + 1, Len(s)), c)

NonBlank(line) == line # <<>>

CsvWidth == 5

\* pd.read_csv(path): the first line names the columns, every later
\* non-blank line is a row; a row with fewer fields is filled up with
\* missing values (the empty text here), one with more is a ParserError.
ReadCsv(content) ==
    LET lines == SelectSeq(SplitAt(content, "\n"), NonBlank)
        rows  == [i \in 1..(Len(lines) - 1) |-> SplitAt(lines[i + 1], ",")]
    IN  IF \E i \in 1..Len(rows) : Len(rows[i]) > CsvWidth
        THEN [kind |-> "ParserError", rows |-> <<>>]
        ELSE [kind |-> "ok",
              rows |-> [i \in 1..Len(rows) |->
                           [j \in 1..CsvWidth |->
                               IF j <= Len(rows[i]) THEN rows[i][j] ELSE <<>>]]]

\* the body of load_recent_tickets
load_recent_tickets(file) ==
    IF ~file.exists THEN [kind |-> "ok", rows |-> <<>>] ELSE ReadCsv(file.content)

NoCache == [filled |-> FALSE, value |-> [kind |-> "none", rows |-> <<>>]]

\* A call of load_recent_tickets through @st.cache_data: the stored value
\* when there is one, else the body's value, which is then stored (an
\* exception is not stored).
CachedLoad(cache, file) ==
    IF cache.filled THEN [value |-> cache.value, cache |-> cache]
    ELSE LET v == load_recent_tickets(file)
         IN  [value |-> v,
              cache |-> IF v.kind = "ok" THEN [filled |-> TRUE, value |-> v] ELSE cache]

\* A key of the arguments dict: present with a value, or absent.
Absent == [has |-> FALSE, val |-> <<>>]
Present(v) == [has |-> TRUE, val |-> v]

\* dict.get(key, default)
DictGet(entry, default) == IF entry.has THEN entry.val ELSE default

Medium == <<"m","e","d","i","u","m">>
Low == <<"l","o","w">>
High == <<"h","i","g","h">>
Untitled == <<"U","n","t","i","t","l","e","d"," ","i","s","s","u","e">>

\* The enum of the priority parameter in FUNCTIONS.
Priorities == {Low, Medium, High}

NoTicket == [ticket_id |-> <<>>, title |-> <<>>, priority |-> <<>>, created_at |-> <<>>]
NoResult == [kind |-> "none", text |-> <<>>, ticket |-> NoTicket]

\* f"Ticket created: {ticket['ticket_id']}. (Follow-up call failed: {err})"
FallbackText(ticket_id, err) ==
    <<"T","i","c","k","e","t"," ","c","r","e","a","t","e","d",":"," ">> \o ticket_id
    \o <<"."," ","(","F","o","l","l","o","w","-","u","p"," ","c","a","l","l"," ",
         "f","a","i","l","e","d",":"," ">> \o err \o <<")">>

\* Texts the model and the provider produce.
ModelText == <<"o","k">>
ProviderError == <<"5","0","3">>

\* What the first model call may come back with, as far as the ticket tool
\* is concerned: a provider failure, a plain answer, a call of the ticket
\* tool (with arguments that parse or do not), a call of an undeclared tool.
NoArgs == [title |-> Absent, description |-> Absent, priority |-> Absent]

Args(t, d, p) == [title |-> t, description |-> d, priority |-> p]

\* The argument dicts of the ticket tool in this model: nothing given, free
\* texts with commas and line breaks, a priority of the enum, one outside
\* it, and one with a comma in it.
AgentArgs ==
    { NoArgs,
      Args(Present(<<"a", ",", "\n">>), Present(<<"\n", "b", ",">>), Absent),
      Args(Present(<<"a">>), Present(<<"b">>), Present(High)),
      Args(Present(<<"a">>), Present(<<"b">>), Present(<<"u","r","g","e","n","t">>)),
      Args(Present(<<"a">>), Present(<<"b">>), Present(<<"a", ",", "b">>)) }

AgentResponses ==
    {[kind |-> k, args |-> NoArgs] :
        k \in {"provider_error", "text", "malformed_arguments", "unknown_function"}}
    \cup {[kind |-> "create_support_ticket", args |-> a] : a \in AgentArgs}

\* A ticket as the model remembers it: the dict returned, the line written,
\* who asked for it and the priority that was asked for.
Created(made, via, requested) ==
    [ticket |-> made.ticket, line |-> made.line, via |-> via, requested |-> requested]

\* The expander at the end of the script: load_recent_tickets(), cached.
ListRecent(cache, file) == CachedLoad(cache, file)

\* One run of the script in which "Ask the agent" was pressed: run_agent,
\* here with the first response resp and the follow-up call succeeding or
\* not, and then the listing.  dt is the time that passes between the two
\* utcnow() calls of create_support_ticket.
AskAgent(resp, followUpOk, dt) ==
    /\ Len(tickets) < MaxTickets
    /\ IF resp.kind = "create_support_ticket"
       THEN LET t2   == AddMicros(clock, dt)
                made == create_support_ticket(
                            ticketFile,
                            DictGet(resp.args.title, Untitled),
                            DictGet(resp.args.description, <<>>),
                            DictGet(resp.args.priority, Medium),
                            clock, t2)
                text == IF followUpOk THEN ModelText
                        ELSE FallbackText(made.ticket.ticket_id, ProviderError)
                shown == ListRecent(ticketCache, made.file)
            IN  /\ clock' = t2
                /\ ticketFile' = made.file
                /\ tickets' = Append(tickets, Created(made, "agent", resp.args.priority))
                /\ agentResult' = [kind |-> "ticket", text |-> text, ticket |-> made.ticket]
                /\ listing' = shown.value
                /\ ticketCache' = shown.cache
       ELSE LET shown == ListRecent(ticketCache, ticketFile)
            IN  /\ dt = 0
                /\ followUpOk
                /\ agentResult' =
                      [kind |-> IF resp.kind = "text" THEN "text" ELSE "error",
                       text |-> IF resp.kind = "text" THEN ModelText ELSE <<>>,
                       ticket |-> NoTicket]
                /\ listing' = shown.value
                /\ ticketCache' = shown.cache
                /\ UNCHANGED <<clock, ticketFile, tickets>>
    /\ UNCHANGED <<advances, normVars, synthVars, execVars, agentVars, writerVars>>

\* What the user may type into the ticket form.
FormInputs ==
    { [title |-> <<"a">>, description |-> <<"b">>],
      [title |-> <<" ", "a", ",", "\n", "b">>, description |-> <<"b", "\n", "c", ",", " ">>],
      [title |-> <<" ">>, description |-> <<"b">>],
      [title |-> <<"a">>, description |-> <<"\n">>] }

\* One run of the script in which the ticket form was submitted: with a
\* title and a description that are not blank the ticket is created from
\* the trimmed texts and the cache of load_recent_tickets is cleared; then
\* the listing.
SubmitTicket(title, description, priority, dt) ==
    /\ Len(tickets) < MaxTickets
    /\ IF Strip(title) # <<>> /\ Strip(description) # <<>>
       THEN LET t2   == AddMicros(clock, dt)
                made == create_support_ticket(ticketFile, Strip(title),
                                              Strip(description), priority, clock, t2)
                shown == ListRecent(NoCache, made.file)
            IN  /\ clock' = t2
                /\ ticketFile' = made.file
                /\ tickets' = Append(tickets, Created(made, "form", Present(priority)))
                /\ listing' = shown.value
                /\ ticketCache' = shown.cache
       ELSE LET shown == ListRecent(ticketCache, ticketFile)
            IN  /\ dt = 0
                /\ listing' = shown.value
                /\ ticketCache' = shown.cache
                /\ UNCHANGED <<clock, ticketFile, tickets>>
    /\ UNCHANGED <<advances, agentResult, normVars, synthVars, execVars,
                   agentVars, writerVars>>

\* One run of the script with no button pressed (the page is opened or
\* refreshed): only the listing.
PageLoad ==
    /\ LET shown == ListRecent(ticketCache, ticketFile)
       IN  /\ listing' = shown.value
           /\ ticketCache' = shown.cache
    /\ UNCHANGED <<clock, advances, ticketFile, tickets, agentResult,
                   normVars, synthVars, execVars, agentVars, writerVars>>

\* Time passes.
Advance(d) ==
    /\ advances < MaxAdvances
    /\ advances' = advances + 1
    /\ clock' = AddMicros(clock, d)
    /\ UNCHANGED <<ticketFile, ticketCache, tickets, listing, agentResult,
                   normVars, synthVars, execVars, agentVars, writerVars>>

(***************************************************************************)
(* ToolDispatcher: run_agent, step by step.  A step is one external call   *)
(* (the provider, the dataset engine, the ticket file) and the code that   *)
(* runs from its return up to the next external call.                      *)
(***************************************************************************)
MaxRuns == 2        \* run_agent invocations in one run of the model
MaxAgentRows == 1   \* rows a statement produces in the model of run_agent

\* The opening words of SYSTEM_PROMPT; the text is never inspected.
SYSTEM_PROMPT ==
    <<"Y","o","u"," ","a","r","e"," ","D","a","t","a","b","a","s","e","G","P","T">>

\* The question of the k-th invocation.
QuestionOf(k) == <<"q">> \o Decimal(k)

\* function_call["arguments"] as json.loads reads it: text that is not
\* JSON, a JSON value that is not an object (a list), or an object with
\* some of the keys query, title, description and priority.
Arguments(json, query, t, d, p) ==
    [json |-> json, query |-> query, title |-> t, description |-> d, priority |-> p]

NoArguments == Arguments("dict", Absent, Absent, Absent, Absent)

NoCall == [name |-> "", arguments |-> NoArguments]

\* A message of the conversation: a dict with role and content, and for
\* some a name or a function_call.
Message(role, name, content, call) ==
    [role |-> role, name |-> name, content |-> content, function_call |-> call]

\* messages = [{"role": "system", ...}, {"role": "user", "content": question}]
InitialMessages(q) ==
    << Message("system", "", SYSTEM_PROMPT, NoCall),
       Message("user", "", q, NoCall) >>

\* The queries the model may put into an ask_database call: plain, with
\* leading and trailing blanks, with a raw expansion, not a SELECT, empty.
AgentQueries ==
    { <<"S","e","l","e","c","t"," ","1">>,
      <<" ","S","e","l","e","c","t"," ","1"," ">>,
      <<"W","I","T","H"," ">> \o RawDirect,
      <<"d","r","o","p"," ","t">>,
      <<>> }

\* The function calls the model may ask for.
AgentCalls ==
    {[name |-> "ask_database", arguments |-> Arguments(j, Absent, Absent, Absent, Absent)] :
        j \in {"malformed", "list", "dict"}}
    \cup {[name |-> "ask_database",
           arguments |-> Arguments("dict", Present(q), Absent, Absent, Absent)] :
             q \in AgentQueries}
    \cup {[name |-> "create_support_ticket",
           arguments |-> Arguments(j, Absent, Absent, Absent, Absent)] :
             j \in {"malformed", "list"}}
    \cup {[name |-> "create_support_ticket",
           arguments |-> Arguments("dict", Absent, a.title, a.description, a.priority)] :
             a \in AgentArgs}
    \cup {[name |-> "delete_everything", arguments |-> NoArguments]}

\* What chat_completion_request may do: raise requests.HTTPError
\* (raise_for_status), raise another exception (no connection, a body that
\* is not JSON), return JSON without "choices", or return a completion.
Completion(kind, finish_reason, message) ==
    [kind |-> kind, finish_reason |-> finish_reason, message |-> message]

Failures ==
    {Completion(k, "", Message("", "", <<>>, NoCall)) :
        k \in {"http_error", "exception", "malformed"}}

FirstResponses ==
    Failures
    \cup {Completion("ok", "stop", Message("assistant", "", ModelText, NoCall))}
    \cup {Completion("ok", "function_call", Message("assistant", "", <<>>, c)) :
             c \in AgentCalls}

FollowUpResponses ==
    Failures
    \cup {Completion("ok", "stop",
                     Message("assistant", "", <<" ">> \o ModelText \o <<"\n">>, NoCall))}

\* A call of chat_completion_request as the model remembers it: the
\* messages sent, whether the payload held "functions", and what came back.
ModelCall(msgs, functions, resp) ==
    [messages |-> msgs, functions |-> functions, response |-> resp]

\* What an invocation found when it started.
Snapshot(file, log) == [ticketFile |-> file, engineLog |-> log]

\* A call of a tool, and whether it completed.
ToolRun(name, ok) == [name |-> name, ok |-> ok]

\* How an invocation ends.
NoOutcome == [kind |-> "none", result |-> <<>>, exc |-> ""]
Returned(result) == [kind |-> "returned", result |-> result, exc |-> ""]
Raised(exc) == [kind |-> "raised", result |-> <<>>, exc |-> exc]

NoTool == [fn |-> "none", query |-> <<>>, columns |-> <<>>, rows |-> <<>>,
           ticket |-> NoTicket, payload |-> <<>>]

\* json.dumps(..., ensure_ascii=False), at character level.
JsonEscapeChar(c) ==
    CASE c = "\"" -> <<"\\", "\"">>
      [] c = "\\" -> <<"\\", "\\">>
      [] c = "\n" -> <<"\\", "n">>
      [] c = "\r" -> <<"\\", "r">>
      [] c = "\t" -> <<"\\", "t">>
      [] c = "\f" -> <<"\\", "f">>
      [] OTHER -> <<c>>

\* The items of a sequence of texts, each two separated by sep.
RECURSIVE JoinRange(_, _, _, _)
JoinRange(items, sep, lo, hi) ==
    IF lo > hi THEN <<>>
    ELSE IF lo = hi THEN items[lo]
    ELSE LET mid == (lo + hi) \div 2
         IN  JoinRange(items, sep, lo, mid) \o sep \o JoinRange(items, sep, mid + 1, hi)

\* (the sequence is bound once, as a value, before the recursion starts)
Join(items, sep) ==
    CHOOSE joined \in {JoinRange(its, sep, 1, Len(its)) : its \in {items}} : TRUE

json_dumps_str(s) ==
    <<"\"">> \o Join([i \in 1..Len(s) |-> JsonEscapeChar(s[i])], <<>>) \o <<"\"">>

\* a list: [item, item, ...]
json_dumps_list(items) == <<"[">> \o Join(items, <<",", " ">>) \o <<"]">>

\* a dict: {"key": value, ...}, in insertion order
json_dumps_dict(keys, values) ==
    <<"{">>
    \o Join([i \in 1..Len(keys) |-> json_dumps_str(keys[i]) \o <<":", " ">> \o values[i]],
            <<",", " ">>)
    \o <<"}">>

\* json.dumps({"columns": columns, "rows": rows}): a row is a list of integers
json_dumps_result(columns, rows) ==
    json_dumps_dict(
        << <<"c","o","l","u","m","n","s">>, <<"r","o","w","s">> >>,
        << json_dumps_list([i \in 1..Len(columns) |-> json_dumps_str(columns[i])]),
           json_dumps_list([i \in 1..Len(rows) |->
               json_dumps_list([j \in 1..Len(rows[i]) |-> Decimal(rows[i][j])])]) >>)

\* json.dumps(ticket) for the dict create_support_ticket returns
json_dumps_ticket(ticket) ==
    json_dumps_dict(
        << <<"t","i","c","k","e","t","_","i","d">>, <<"t","i","t","l","e">>,
           <<"p","r","i","o","r","i","t","y">>, <<"c","r","e","a","t","e","d","_","a","t">> >>,
        << json_dumps_str(ticket.ticket_id), json_dumps_str(ticket.title),
           json_dumps_str(ticket.priority), json_dumps_str(ticket.created_at) >>)

\* The invocation returns result or raises exc: its frame is gone.
Finish(how) ==
    /\ outcome' = how
    /\ pc' = "done"

\* A faulty variant: the conversation is kept from one invocation to the
\* next, and the new question is appended to it.
StartAgentShared ==
    /\ pc \in {"idle", "done"}
    /\ runs < MaxRuns
    /\ runs' = runs + 1
    /\ question' = QuestionOf(runs + 1)
    /\ messages' = IF messages = <<>> THEN InitialMessages(QuestionOf(runs + 1))
                   ELSE Append(messages, Message("user", "", QuestionOf(runs + 1), NoCall))
    /\ assistant_message' = Message("", "", <<>>, NoCall)
    /\ toolOut' = NoTool
    /\ modelCalls' = <<>>
    /\ toolRuns' = <<>>
    /\ outcome' = NoOutcome
    /\ atStart' = Snapshot(ticketFile, engineLog)
    /\ pc' = "first_call"
    /\ UNCHANGED <<normVars, synthVars, execVars, ticketVars, writerVars>>

\* run_agent(question) is called: lines 167-176.  The script stops before
\* this when OPENAI_API_KEY is not set, so the key is set here.
StartAgent ==
    /\ pc \in {"idle", "done"}
    /\ runs < MaxRuns
    /\ runs' = runs + 1
    /\ question' = QuestionOf(runs + 1)
    /\ messages' = InitialMessages(QuestionOf(runs + 1))
    /\ assistant_message' = Message("", "", <<>>, NoCall)
    /\ toolOut' = NoTool
    /\ modelCalls' = <<>>
    /\ toolRuns' = <<>>
    /\ outcome' = NoOutcome
    /\ atStart' = Snapshot(ticketFile, engineLog)
    /\ pc' = "first_call"
    /\ UNCHANGED <<normVars, synthVars, execVars, ticketVars, writerVars>>

\* A faulty variant: a provider failure on the first call is ignored and the
\* ticket tool is run with no arguments.
FirstCallCarriesOn(resp) ==
    /\ pc = "first_call"
    /\ modelCalls' = Append(modelCalls, ModelCall(messages, TRUE, resp))
    /\ assistant_message' = resp.message
    /\ pc' = "ticket_tool"
    /\ UNCHANGED <<runs, question, messages, toolOut, toolRuns, outcome, atStart,
                   normVars, synthVars, execVars, ticketVars, writerVars>>

\* No query has been taken from the response.
NoQuery == UNCHANGED <<sql, nres, execOut, toolRuns>>

\* Lines 178-203, 228-232 and 256, and line 121: the first model call, with
\* the tool declarations, and the dispatch on its response up to the next
\* external call; for a query that is the connection to the dataset, which
\* _normalise_query precedes.
FirstCall(resp) ==
    /\ pc = "first_call"
    /\ modelCalls' = Append(modelCalls, ModelCall(messages, TRUE, resp))
    /\ LET call == resp.message.function_call
           args == call.arguments
       IN  CASE resp.kind = "http_error" ->
                   /\ Finish(Returned([error |-> "OpenAI API error"]))
                   /\ UNCHANGED assistant_message
                   /\ NoQuery
             [] resp.kind = "exception" ->
                   /\ Finish(Returned([error |-> "OpenAI request failed"]))
                   /\ UNCHANGED assistant_message
                   /\ NoQuery
             [] resp.kind = "malformed" ->
                   \* first_response["choices"][0] is outside the try
                   /\ Finish(Raised("KeyError"))
                   /\ UNCHANGED assistant_message
                   /\ NoQuery
             [] resp.kind = "ok" /\ resp.finish_reason # "function_call" ->
                   /\ Finish(Returned([text |-> resp.message.content]))
                   /\ assistant_message' = resp.message
                   /\ NoQuery
             [] resp.kind = "ok" /\ resp.finish_reason = "function_call"
                  /\ call.name = "ask_database" ->
                   /\ assistant_message' = resp.message
                   /\ IF args.json # "dict" \/ ~args.query.has
                      THEN /\ Finish(Returned(
                                  [error |-> "Failed to parse function arguments"]))
                           /\ NoQuery
                      ELSE /\ sql' = args.query.val
                           /\ nres' = _normalise_query(args.query.val)
                           /\ IF nres'.kind # "ok"
                              THEN /\ execOut' = NotNormalised(nres')
                                   /\ toolRuns' = Append(toolRuns,
                                                         ToolRun("ask_database", FALSE))
                                   /\ Finish(Returned([error |-> "Database error"]))
                              ELSE /\ pc' = "query_tool"
                                   /\ UNCHANGED <<execOut, toolRuns, outcome>>
             [] resp.kind = "ok" /\ resp.finish_reason = "function_call"
                  /\ call.name = "create_support_ticket" ->
                   /\ assistant_message' = resp.message
                   /\ NoQuery
                   /\ CASE args.json = "malformed" ->
                              Finish(Returned([error |-> "Failed to parse function arguments"]))
                        [] args.json = "list" ->
                              \* arguments.get on a value that is not a dict
                              Finish(Raised("AttributeError"))
                        [] OTHER -> pc' = "ticket_tool" /\ outcome' = outcome
             [] OTHER ->
                   /\ assistant_message' = resp.message
                   /\ NoQuery
                   /\ Finish(Returned([error |-> "Unknown function requested"]))
    /\ UNCHANGED <<runs, question, messages, toolOut, atStart, ares, matching, conns,
                   engineLog, synthVars, ticketVars, writerVars>>

\* A faulty variant: a failed query is reported to the model in a follow-up
\* call instead of ending the invocation.
QueryToolCarriesOn(eng) ==
    /\ pc = "query_tool"
    /\ execute_statement(nres.value, eng)
    /\ \E rows \in {IF execOut'.kind = "ok" THEN execOut'.rows ELSE <<>>} :
       \E result_payload \in {json_dumps_result(EngineColumns, rows)} :
           /\ toolRuns' = Append(toolRuns, ToolRun("ask_database", execOut'.kind = "ok"))
           /\ toolOut' = [fn |-> "ask_database", query |-> sql,
                          columns |-> EngineColumns, rows |-> rows,
                          ticket |-> NoTicket, payload |-> result_payload]
           /\ messages' = messages \o
                  << assistant_message,
                     Message("function", "ask_database", result_payload, NoCall) >>
           /\ pc' = "follow_up"
           /\ UNCHANGED outcome
    /\ UNCHANGED <<normVars, matching, synthVars, ticketVars, writerVars,
                   runs, question, assistant_message, modelCalls, atStart>>

\* Lines 203-215 with lines 122-131: the with block of execute_query for
\* the normalised query and, when it returns, the two appends to the
\* conversation.
QueryTool(eng) ==
    /\ pc = "query_tool"
    /\ execute_statement(nres.value, eng)
    /\ IF execOut'.kind # "ok"
       THEN /\ toolRuns' = Append(toolRuns, ToolRun("ask_database", FALSE))
            /\ Finish(Returned([error |-> "Database error"]))
            /\ UNCHANGED <<messages, toolOut>>
       ELSE \E query \in {sql}, columns \in {EngineColumns}, rows \in {execOut'.rows} :
            \E result_payload \in {json_dumps_result(columns, rows)} :
                /\ toolRuns' = Append(toolRuns, ToolRun("ask_database", TRUE))
                /\ toolOut' = [fn |-> "ask_database", query |-> query,
                               columns |-> columns, rows |-> rows,
                               ticket |-> NoTicket, payload |-> result_payload]
                /\ messages' = messages \o
                       << assistant_message,
                          Message("function", "ask_database", result_payload, NoCall) >>
                /\ pc' = "follow_up"
                /\ UNCHANGED outcome
    /\ UNCHANGED <<normVars, matching, synthVars, ticketVars, writerVars,
                   runs, question, assistant_message, modelCalls, atStart>>

\* How a write to the ticket file may go: well, or with an OSError from
\* _ensure_ticket_store, or with one from the append after it.
WriteOutcomes == {"written", "ensure_error", "append_error"}

\* Lines 234-246: create_support_ticket(...) with the arguments' values or
\* their defaults and, when it returns, the two appends to the conversation.
TicketTool(wrote) ==
    /\ pc = "ticket_tool"
    /\ CASE wrote = "ensure_error" ->
               /\ toolRuns' = Append(toolRuns, ToolRun("create_support_ticket", FALSE))
               /\ Finish(Raised("OSError"))
               /\ UNCHANGED <<ticketFile, tickets, messages, toolOut>>
         [] wrote = "append_error" ->
               /\ toolRuns' = Append(toolRuns, ToolRun("create_support_ticket", FALSE))
               /\ ticketFile' = _ensure_ticket_store(ticketFile)
               /\ Finish(Raised("OSError"))
               /\ UNCHANGED <<tickets, messages, toolOut>>
         [] OTHER ->
               \E arguments \in {assistant_message.function_call.arguments} :
               \E made \in {create_support_ticket(ticketFile,
                                                  DictGet(arguments.title, Untitled),
                                                  DictGet(arguments.description, <<>>),
                                                  DictGet(arguments.priority, Medium),
                                                  clock, clock)} :
               \E payload \in {json_dumps_ticket(made.ticket)} :
                   /\ toolRuns' = Append(toolRuns, ToolRun("create_support_ticket", TRUE))
                   /\ ticketFile' = made.file
                   /\ tickets' = Append(tickets,
                                        Created(made, "agent", arguments.priority))
                   /\ toolOut' = [fn |-> "create_support_ticket", query |-> <<>>,
                                  columns |-> <<>>, rows |-> <<>>,
                                  ticket |-> made.ticket, payload |-> payload]
                   /\ messages' = messages \o
                          << assistant_message,
                             Message("function", "create_support_ticket", payload, NoCall) >>
                   /\ pc' = "follow_up"
                   /\ UNCHANGED outcome
    /\ UNCHANGED <<clock, advances, ticketCache, listing, agentResult,
                   normVars, synthVars, execVars, writerVars,
                   runs, question, assistant_message, modelCalls, atStart>>

\* A faulty variant: a failed follow-up call is made again.
FollowUpRetries(resp) ==
    /\ pc = "follow_up"
    /\ modelCalls' = Append(modelCalls, ModelCall(messages, FALSE, resp))
    /\ IF resp.kind = "ok"
       THEN Finish(Returned([text |-> Strip(resp.message.content)]))
       ELSE UNCHANGED <<pc, outcome>>
    /\ UNCHANGED <<runs, question, messages, assistant_message, toolOut, toolRuns,
                   atStart, normVars, synthVars, execVars, ticketVars, writerVars>>

\* A faulty variant: when the follow-up call fails only the error is returned.
FollowUpDropsOutput(resp) ==
    /\ pc = "follow_up"
    /\ modelCalls' = Append(modelCalls, ModelCall(messages, FALSE, resp))
    /\ IF resp.kind = "ok"
       THEN IF toolOut.fn = "ask_database"
            THEN Finish(Returned([text |-> Strip(resp.message.content),
                                  columns |-> toolOut.columns,
                                  rows |-> toolOut.rows, query |-> toolOut.query]))
            ELSE Finish(Returned([text |-> Strip(resp.message.content),
                                  ticket |-> toolOut.ticket]))
       ELSE Finish(Returned([error |-> "OpenAI follow-up failed"]))
    /\ UNCHANGED <<runs, question, messages, assistant_message, toolOut, toolRuns,
                   atStart, normVars, synthVars, execVars, ticketVars, writerVars>>

\* A faulty variant: the error result of a failed follow-up call keeps the
\* query next to the rows.
FollowUpKeepsQuery(resp) ==
    /\ pc = "follow_up"
    /\ modelCalls' = Append(modelCalls, ModelCall(messages, FALSE, resp))
    /\ IF toolOut.fn = "ask_database"
       THEN IF resp.kind = "ok"
            THEN Finish(Returned([text |-> Strip(resp.message.content),
                                  columns |-> toolOut.columns,
                                  rows |-> toolOut.rows, query |-> toolOut.query]))
            ELSE Finish(Returned([error |-> "OpenAI follow-up failed",
                                  columns |-> toolOut.columns,
                                  rows |-> toolOut.rows, query |-> toolOut.query]))
       ELSE Finish(Returned([text |-> IF resp.kind = "ok"
                                      THEN Strip(resp.message.content)
                                      ELSE FallbackText(toolOut.ticket.ticket_id,
                                                        ProviderError),
                             ticket |-> toolOut.ticket]))
    /\ UNCHANGED <<runs, question, messages, assistant_message, toolOut, toolRuns,
                   atStart, normVars, synthVars, execVars, ticketVars, writerVars>>

\* Lines 217-226 and 248-254: the second model call, without tools, and the
\* result built from its response and the tool's output.
FollowUp(resp) ==
    /\ pc = "follow_up"
    /\ modelCalls' = Append(modelCalls, ModelCall(messages, FALSE, resp))
    /\ LET final_text == Strip(resp.message.content)
       IN  IF toolOut.fn = "ask_database"
           THEN CASE resp.kind = "ok" ->
                       Finish(Returned([text |-> final_text, columns |-> toolOut.columns,
                                        rows |-> toolOut.rows, query |-> toolOut.query]))
                  [] resp.kind = "http_error" ->
                       Finish(Returned([error |-> "OpenAI API error on follow-up call",
                                        columns |-> toolOut.columns, rows |-> toolOut.rows]))
                  [] OTHER ->
                       Finish(Returned([error |-> "OpenAI follow-up failed",
                                        columns |-> toolOut.columns, rows |-> toolOut.rows]))
           ELSE IF resp.kind = "ok"
                THEN Finish(Returned([text |-> final_text, ticket |-> toolOut.ticket]))
                ELSE Finish(Returned(
                         [text |-> FallbackText(toolOut.ticket.ticket_id, ProviderError),
                          ticket |-> toolOut.ticket]))
    /\ UNCHANGED <<runs, question, messages, assistant_message, toolOut, toolRuns,
                   atStart, normVars, synthVars, execVars, ticketVars, writerVars>>

(***************************************************************************)
(* create_support_ticket under concurrent requests.  Streamlit runs the    *)
(* script of every session in a thread of its own, so several calls may be *)
(* under way at once; each is a sequence of file-system calls.             *)
(***************************************************************************)
MaxWriters == 3     \* concurrent create_support_ticket calls

\* The title writer w passes.
WriterTitle(w) == <<"w">> \o Decimal(w)

\* A call that has not begun.
NotCalled == [pc |-> "idle", line |-> <<>>]

\* Writer w calls create_support_ticket: line 155 up to the test of line
\* 150 (mkdir with exist_ok changes nothing that matters here).
WriterCall(w) ==
    /\ writers[w].pc = "idle"
    /\ writers' = [writers EXCEPT ![w].pc = "exists"]
    /\ UNCHANGED <<completed, normVars, synthVars, execVars, ticketVars, agentVars>>

\* Line 150: SUPPORT_TICKET_PATH.exists()
WriterExists(w) ==
    /\ writers[w].pc = "exists"
    /\ writers' = [writers EXCEPT
                      ![w].pc = IF ticketFile.exists THEN "append" ELSE "write_text"]
    /\ UNCHANGED <<completed, normVars, synthVars, execVars, ticketVars, agentVars>>

\* Line 151: write_text opens the file for writing, which empties it, and
\* writes the header (taken here as one indivisible step).
WriterWriteText(w) ==
    /\ writers[w].pc = "write_text"
    /\ ticketFile' = [exists |-> TRUE, content |-> TicketHeader]
    /\ writers' = [writers EXCEPT ![w].pc = "append"]
    /\ UNCHANGED <<completed, clock, advances, ticketCache, tickets, listing,
                   agentResult, normVars, synthVars, execVars, agentVars>>

\* Lines 156-164: the line is built and appended; the file is opened in
\* append mode and the line reaches it in one write when the handle is
\* closed.  The call returns.
WriterAppend(w) ==
    /\ writers[w].pc = "append"
    /\ \E made \in {create_support_ticket(ticketFile, WriterTitle(w), <<"d">>, Medium,
                                          clock, clock)} :
          /\ ticketFile' = made.file
          /\ writers' = [writers EXCEPT ![w] = [pc |-> "done", line |-> made.line]]
          /\ completed' = Append(completed, made.line)
    /\ UNCHANGED <<clock, advances, ticketCache, tickets, listing, agentResult,
                   normVars, synthVars, execVars, agentVars>>

(***************************************************************************)
(* Specifications.  Each one exercises one component; the variables of    *)
(* the other components stay idle.                                         *)
(***************************************************************************)
NormIdle == sql = <<>> /\ nres = NotRun /\ ares = NotRun

SynthIdle == directors = SqlNull /\ synth = NotRun

ExecIdle == matching = 0 /\ conns = <<>> /\ execOut = NoExec /\ engineLog = <<>>

TicketIdle ==
    /\ clock = [s |-> StartEpoch, us |-> 0]
    /\ advances = 0
    /\ ticketFile = NoFile
    /\ ticketCache = NoCache
    /\ tickets = <<>>
    /\ listing = [kind |-> "none", rows |-> <<>>]
    /\ agentResult = NoResult

AgentIdle ==
    /\ pc = "idle"
    /\ runs = 0
    /\ question = <<>>
    /\ messages = <<>>
    /\ assistant_message = Message("", "", <<>>, NoCall)
    /\ toolOut = NoTool
    /\ modelCalls = <<>>
    /\ toolRuns = <<>>
    /\ outcome = NoOutcome
    /\ atStart = Snapshot(NoFile, <<>>)

WriterIdle == writers = <<>> /\ completed = <<>>

NormInit ==
    /\ sql \in Texts(MaxFrags)
    /\ nres = NotRun
    /\ ares = NotRun
    /\ SynthIdle
    /\ ExecIdle
    /\ TicketIdle
    /\ AgentIdle
    /\ WriterIdle

\* A call of _normalise_query(sql) (streamlit_app.py).
NormaliseQuery ==
    /\ nres.kind = "none"
    /\ nres' = _normalise_query(sql)
    /\ UNCHANGED <<sql, ares, synthVars, execVars, ticketVars, agentVars, writerVars>>

\* The rewrite of ask_database(sql) (responsesAI.py).
AskDatabaseRewrite ==
    /\ ares.kind = "none"
    /\ ares' = Ok(ask_database_safe_query(sql))
    /\ UNCHANGED <<sql, nres, synthVars, execVars, ticketVars, agentVars, writerVars>>

NormNext == NormaliseQuery \/ AskDatabaseRewrite

SpecNorm == NormInit /\ [][NormNext]_vars

SynthInit ==
    /\ directors \in {SqlNull} \cup {SqlText(t) : t \in TextsOver(DirAlphabet, MaxDirLen)}
    /\ synth = NotRun
    /\ NormIdle
    /\ ExecIdle
    /\ TicketIdle
    /\ AgentIdle
    /\ WriterIdle

\* The engine evaluates the rewritten expansion argument for a row.
EvalReplacement ==
    /\ synth.kind = "none"
    /\ synth' = [kind |-> "ok", value |-> SynthesizedJson(directors), msg |-> ""]
    /\ UNCHANGED <<directors, normVars, execVars, ticketVars, agentVars, writerVars>>

SynthNext == EvalReplacement

SpecSynth == SynthInit /\ [][SynthNext]_vars

ExecInit ==
    /\ matching \in 0..(MAX_ROWS + MaxExtraRows)
    /\ conns = <<>>
    /\ execOut = NoExec
    /\ engineLog = <<>>
    /\ NormIdle
    /\ SynthIdle
    /\ TicketIdle
    /\ AgentIdle
    /\ WriterIdle

ExecNext ==
    \/ \E q \in ExecQueries, eng \in EngineOutcomes : ExecuteQuery(q, eng)
    \/ \E q \in ExecQueries, eng \in EngineOutcomes : AskDatabase(q, eng)
    \/ HandlerDone
    \/ \E i \in 1..Len(conns) : Finalize(i)

SpecExec == ExecInit /\ [][ExecNext]_vars

TicketInit == NormIdle /\ SynthIdle /\ ExecIdle /\ TicketIdle /\ AgentIdle /\ WriterIdle

TicketNext ==
    \/ \E resp \in AgentResponses, followUpOk \in BOOLEAN, dt \in {0, 1} :
          AskAgent(resp, followUpOk, dt)
    \/ \E form \in FormInputs, priority \in Priorities, dt \in {0, 1} :
          SubmitTicket(form.title, form.description, priority, dt)
    \/ PageLoad
    \/ \E d \in TimeSteps : Advance(d)

SpecTickets == TicketInit /\ [][TicketNext]_vars

AgentInit ==
    /\ matching \in 0..MaxAgentRows
    /\ conns = <<>>
    /\ execOut = NoExec
    /\ engineLog = <<>>
    /\ NormIdle
    /\ SynthIdle
    /\ TicketIdle
    /\ AgentIdle
    /\ WriterIdle

AgentNext ==
    \/ StartAgent
    \/ \E resp \in FirstResponses : FirstCall(resp)
    \/ \E eng \in EngineOutcomes : QueryTool(eng)
    \/ \E wrote \in WriteOutcomes : TicketTool(wrote)
    \/ \E resp \in FollowUpResponses : FollowUp(resp)

SpecAgent == AgentInit /\ [][AgentNext]_vars

\* A step of an invocation that has started: the external call it waits
\* for returns or raises, and the code runs on to the next one.  The first
\* four lines name outcomes that the last four include: they let the
\* question whether a step is possible be settled by the shortest steps.
AgentProgress ==
    \/ \E resp \in Failures : FirstCall(resp)
    \/ QueryTool("connect_error")
    \/ TicketTool("ensure_error")
    \/ \E resp \in Failures : FollowUp(resp)
    \/ \E resp \in FirstResponses : FirstCall(resp)
    \/ \E eng \in EngineOutcomes : QueryTool(eng)
    \/ \E wrote \in WriteOutcomes : TicketTool(wrote)
    \/ \E resp \in FollowUpResponses : FollowUp(resp)

\* The same behaviours, when every external call comes back.
SpecAgentLive == AgentInit /\ [][AgentNext]_vars /\ WF_vars(AgentProgress)

WriterInit ==
    /\ writers = [w \in 1..MaxWriters |-> NotCalled]
    /\ completed = <<>>
    /\ NormIdle
    /\ SynthIdle
    /\ ExecIdle
    /\ TicketIdle
    /\ AgentIdle

WriterNext ==
    \/ \E w \in 1..MaxWriters : WriterCall(w)
    \/ \E w \in 1..MaxWriters : WriterExists(w)
    \/ \E w \in 1..MaxWriters : WriterWriteText(w)
    \/ \E w \in 1..MaxWriters : WriterAppend(w)

SpecWriters == WriterInit /\ [][WriterNext]_vars

(***************************************************************************)
(* Properties of the rewriter, stated on the texts themselves.             *)
(***************************************************************************)
WhitespaceOnly(s) == \A i \in 1..Len(s) : s[i] \in Whitespace

\* s, after leading whitespace and without regard to case, begins with kw
BeginsWithKeyword(s, kw) ==
    \E i \in 1..Len(s) :
        /\ \A j \in 1..(i - 1) : s[j] \in Whitespace
        /\ i + Len(kw) - 1 <= Len(s)
        /\ \A j \in 1..Len(kw) : LowerChar(s[i + j - 1]) = kw[j]

SeparatorCount(s) == Cardinality({i \in 1..Len(s) : s[i] = ";"})

Contains(s, p) == \E i \in 1..Len(s) : MatchAt(s, p, i)

\* a separator followed by further statement text
StatementStacking(s) ==
    \E i \in 1..Len(s) :
        s[i] = ";" /\ \E j \in (i + 1)..Len(s) : s[j] \notin Whitespace \cup {";"}

\* v is s without its leading and trailing whitespace
IsTrimOf(v, s) ==
    \E a \in 0..Len(s), b \in 0..Len(s) :
        /\ a + b <= Len(s)
        /\ v = SubSeq(s, a + 1, Len(s) - b)
        /\ \A j \in 1..a : s[j] \in Whitespace
        /\ \A j \in (Len(s) - b + 1)..Len(s) : s[j] \in Whitespace
        /\ v # <<>> => (v[1] \notin Whitespace /\ v[Len(v)] \notin Whitespace)

\* C1: _normalise_query raises the invalid-query error (ValueError), and
\* returns no rewritten query, for every input that is empty or
\* whitespace-only, that does not begin (trimmed, lower-cased) with select or
\* with, or that contains more than one ';'.
C1_InvalidQueryRejected ==
    nres.kind # "none" =>
        ( ( \/ WhitespaceOnly(sql)
            \/ ~(BeginsWithKeyword(sql, KwSelect) \/ BeginsWithKeyword(sql, KwWith))
            \/ SeparatorCount(sql) > 1 )
          => (nres.kind = "ValueError" /\ nres.value = <<>>) )

\* C1 witness: a well-begun query rejected only for its two separators.
C1_Witness ==
    /\ nres.kind = "ValueError"
    /\ BeginsWithKeyword(sql, KwSelect)
    /\ SeparatorCount(sql) = 2

\* C2: every text _normalise_query accepts is a single statement: an input
\* in which a ';' is followed by further statement text is rejected.
C2_StackingRejected ==
    (nres.kind # "none" /\ StatementStacking(sql)) => nres.kind = "ValueError"

\* C3: the query _normalise_query returns contains neither raw expansion
\* pattern, however the occurrences are arranged in the input, and an input
\* with neither pattern is returned unchanged apart from trimming; the text
\* ask_database executes contains neither pattern either, and is the query
\* itself when the query holds neither.
C3_NoRawPattern ==
    /\ nres.kind = "ok" =>
        /\ ~Contains(nres.value, RawDirect)
        /\ ~Contains(nres.value, RawIfnull)
        /\ (~Contains(sql, RawDirect) /\ ~Contains(sql, RawIfnull))
              => IsTrimOf(nres.value, sql)
    /\ ares.kind = "ok" =>
        /\ ~Contains(ares.value, RawDirect)
        /\ ~Contains(ares.value, RawIfnull)
        /\ (~Contains(sql, RawDirect) /\ ~Contains(sql, RawIfnull))
              => ares.value = sql

\* C3 witness: an accepted query holding both raw patterns, rewritten.
C3_Witness ==
    /\ nres.kind = "ok"
    /\ Contains(sql, RawDirect)
    /\ Contains(sql, RawIfnull)
    /\ Contains(nres.value, SafeExpansion \o SafeExpansion)

(***************************************************************************)
(* JSON (RFC 8259) arrays of strings: well-formedness and decoding.        *)
(***************************************************************************)
JsonFail == [ok |-> FALSE, elems |-> <<>>]

\* the characters that may follow a backslash, and what they stand for
JsonEscapes == {"\"", "\\", "/", "b", "f", "n", "r", "t"}

JsonUnescape(c) ==
    CASE c = "b" -> "<BS>"
      [] c = "f" -> "\f"
      [] c = "n" -> "\n"
      [] c = "r" -> "\r"
      [] c = "t" -> "\t"
      [] OTHER -> c

JsonControl == {"\n", "\r", "\t", "\f", "<BS>"}

\* Reads a string body from position i (after the opening quote).
RECURSIVE JsonString(_, _, _)
JsonString(t, i, acc) ==
    IF i > Len(t) THEN [ok |-> FALSE, val |-> <<>>, next |-> i]
    ELSE IF t[i] = "\"" THEN [ok |-> TRUE, val |-> acc, next |-> i + 1]
    ELSE IF t[i] = "\\"
         THEN IF i + 1 <= Len(t) /\ t[i + 1] \in JsonEscapes
              THEN JsonString(t, i + 2, Append(acc, JsonUnescape(t[i + 1])))
              ELSE [ok |-> FALSE, val |-> <<>>, next |-> i]
    ELSE IF t[i] \in JsonControl THEN [ok |-> FALSE, val |-> <<>>, next |-> i]
    ELSE JsonString(t, i + 1, Append(acc, t[i]))

\* Reads the elements of an array from position i (an element starts there).
RECURSIVE JsonElements(_, _, _)
JsonElements(t, i, acc) ==
    IF i > Len(t) \/ t[i] # "\"" THEN JsonFail
    ELSE LET str == JsonString(t, i + 1, <<>>)
         IN  IF ~str.ok \/ str.next > Len(t) THEN JsonFail
             ELSE IF t[str.next] = ","
                  THEN JsonElements(t, str.next + 1, Append(acc, str.val))
             ELSE IF t[str.next] = "]" /\ str.next = Len(t)
                  THEN [ok |-> TRUE, elems |-> Append(acc, str.val)]
             ELSE JsonFail

JsonArrayOfStrings(t) ==
    IF Len(t) < 2 \/ t[1] # "[" THEN JsonFail
    ELSE IF t[2] = "]" THEN [ok |-> Len(t) = 2, elems |-> <<>>]
    ELSE JsonElements(t, 2, <<>>)

\* the comma-separated segments of s
RECURSIVE Segments(_)
Segments(s) ==
    LET commas == {k \in 1..Len(s) : s[k] = ","}
    IN  IF commas = {} THEN <<s>>
        ELSE LET k == CHOOSE c \in commas : \A h \in commas : c <= h
             IN  <<SubSeq(s, 1, k - 1)>> \o Segments(SubSeq(s, k + 1, Len(s)))

IsDoubleQuote(c) == c = "\""
NotDoubleQuote(c) == ~IsDoubleQuote(c)

\* the segments of a directors value (NULL counts as the empty text), each
\* with its double quotes removed
ExpectedNames(d) ==
    LET segs == Segments(IF d.null THEN <<>> ELSE d.text)
    IN  [i \in 1..Len(segs) |-> SelectSeq(segs[i], NotDoubleQuote)]

\* C4: for every directors value the synthesized text is a well-formed JSON
\* array of strings whose elements are the comma-separated segments of the
\* value with double quotes removed, in order.
C4_SynthesizedJsonValid ==
    synth.kind = "ok" =>
        /\ ~synth.value.null
        /\ LET parsed == JsonArrayOfStrings(synth.value.text)
           IN  parsed.ok /\ parsed.elems = ExpectedNames(directors)

(***************************************************************************)
(* Properties of the query executor.                                       *)
(***************************************************************************)
\* C5: execute_query never returns more than MAX_ROWS rows: for a query that
\* produces n rows it returns the first min(n, MAX_ROWS) rows in engine
\* order, and it logs the truncation warning exactly when n > MAX_ROWS.
C5_RowLimit ==
    (execOut.fn = "execute_query" /\ execOut.kind = "ok") =>
        LET n == execOut.produced
            k == IF n < MAX_ROWS THEN n ELSE MAX_ROWS
        IN  /\ Len(execOut.rows) <= MAX_ROWS
            /\ Len(execOut.rows) = k
            /\ \A i \in 1..k : execOut.rows[i] = <<i>>
            /\ execOut.warned <=> (n > MAX_ROWS)

\* C5 witness: a query producing more than MAX_ROWS rows was executed and
\* its result truncated.
C5_Witness ==
    /\ execOut.fn = "execute_query"
    /\ execOut.kind = "ok"
    /\ execOut.produced > MAX_ROWS
    /\ execOut.warned
    /\ Len(execOut.rows) = MAX_ROWS

\* C6: every connection opened by a query execution is closed by the time
\* the call has returned or raised.
C6_ConnectionsReleased ==
    \A i \in 1..Len(conns) : conns[i].state = "closed"

(***************************************************************************)
(* Properties of the ticket store.                                         *)
(***************************************************************************)
\* C7: any two tickets created by distinct create_support_ticket calls have
\* distinct, non-empty ticket_id values, whatever time passed between the
\* calls.
C7_TicketIdsUnique ==
    /\ \A i \in 1..Len(tickets) : tickets[i].ticket.ticket_id # <<>>
    /\ \A i, j \in 1..Len(tickets) :
          i # j => tickets[i].ticket.ticket_id # tickets[j].ticket.ticket_id

\* a row of the listing is the record of ticket t
IsRecordOf(row, t) ==
    /\ row[1] = t.ticket.ticket_id
    /\ row[4] = t.ticket.priority
    /\ row[5] = t.ticket.created_at

\* C8: once a ticket has been created, by the agent's tool or by the form,
\* a listing of the recent tickets made afterwards includes its record, and
\* the listing is empty only when no ticket has been persisted.
C8_ListingIncludesCreated ==
    listing.kind = "ok" =>
        /\ \A i \in 1..Len(tickets) :
              \E r \in 1..Len(listing.rows) : IsRecordOf(listing.rows[r], tickets[i])
        /\ listing.rows = <<>> => tickets = <<>>

\* C9: every record written to the ticket log is exactly one line of
\* exactly 5 comma-delimited fields, on every write path.
C9_RecordShape ==
    \A i \in 1..Len(tickets) :
        LET line == tickets[i].line
        IN  /\ line # <<>>
            /\ line[Len(line)] = "\n"
            /\ Cardinality({k \in 1..Len(line) : line[k] = "\n"}) = 1
            /\ Cardinality({k \in 1..Len(line) : line[k] = ","}) = 4

\* C10: every ticket created through the agent's ticket tool has a priority
\* of low, medium or high, and it is medium when the arguments give no
\* priority or one outside that set.
C10_AgentPriorityValid ==
    \A i \in 1..Len(tickets) :
        tickets[i].via = "agent" =>
            /\ tickets[i].ticket.priority \in Priorities
            /\ (~tickets[i].requested.has \/ tickets[i].requested.val \notin Priorities)
                  => tickets[i].ticket.priority = Medium

(***************************************************************************)
(* Properties of run_agent.                                                *)
(***************************************************************************)
\* the invocation has ended by returning a dict
HasReturned == pc = "done" /\ outcome.kind = "returned"

\* the keys of the returned dict
ResultKeys == DOMAIN outcome.result

\* the response of the k-th model call of the invocation
ResponseOf(k) == modelCalls[k].response

ProviderFailure(resp) == resp.kind \in {"http_error", "exception"}

\* C11: run_agent never lets an exception escape to its caller: every
\* invocation that has ended has returned a result carrying an error or a
\* text, whatever failed on the way.
C11_NoExceptionEscapes ==
    pc = "done" =>
        /\ outcome.kind = "returned"
        /\ ("error" \in ResultKeys \/ "text" \in ResultKeys)

\* C12: when the first model call fails at the provider, run_agent returns
\* an error result, no tool has been called, no statement has reached the
\* dataset engine, the ticket file is as it was, and no second model call
\* has been made.
C12_FirstCallFailureNoEffects ==
    (pc = "done" /\ ProviderFailure(ResponseOf(1))) =>
        /\ outcome.kind = "returned"
        /\ "error" \in ResultKeys
        /\ toolRuns = <<>>
        /\ engineLog = atStart.engineLog
        /\ ticketFile = atStart.ticketFile
        /\ Len(modelCalls) = 1

\* C12 witness: a second invocation, after one that wrote a ticket, has
\* ended on a provider failure of its first call.
C12_Witness ==
    /\ pc = "done"
    /\ runs = 2
    /\ ResponseOf(1).kind = "http_error"
    /\ ticketFile.exists
    /\ tickets # <<>>

\* the second model call of the invocation was made and failed
FollowUpFailed == pc = "done" /\ Len(modelCalls) = 2 /\ ResponseOf(2).kind # "ok"

\* the ticket the invocation created: the last one
LastTicket == tickets[Len(tickets)]

TicketCreatedPrefix ==
    <<"T","i","c","k","e","t"," ","c","r","e","a","t","e","d",":"," ">>

\* C13: a failure of the follow-up model call never loses the result of the
\* tool that ran: after a query the returned result carries the fetched
\* columns and rows next to the error message; after a ticket creation it
\* carries the created ticket and a templated confirmation text naming its
\* ticket_id, and the ticket's record is still in the ticket file.
C13_ToolResultKept ==
    FollowUpFailed =>
        /\ outcome.kind = "returned"
        /\ toolRuns[1].name = "ask_database" =>
              /\ {"error", "columns", "rows"} \subseteq ResultKeys
              /\ execOut.kind = "ok"
              /\ outcome.result.columns = EngineColumns
              /\ outcome.result.rows = execOut.rows
        /\ toolRuns[1].name = "create_support_ticket" =>
              /\ {"text", "ticket"} \subseteq ResultKeys
              /\ outcome.result.ticket = LastTicket.ticket
              /\ StartsWith(outcome.result.text,
                            TicketCreatedPrefix \o LastTicket.ticket.ticket_id)
              /\ Contains(ticketFile.content, LastTicket.line)

\* C13 witness: the follow-up call of a ticket creation failed, in an
\* invocation that followed one which ran a query.
C13_Witness ==
    /\ FollowUpFailed
    /\ toolRuns[1].name = "create_support_ticket"
    /\ ResponseOf(2).kind = "malformed"
    /\ engineLog # <<>>

\* C14: on the successful query path the query field of the returned result
\* is the statement that was handed to the dataset engine in this
\* invocation, also when the rewrite changed the model's query.
C14_QueryFieldIsExecuted ==
    (HasReturned /\ "query" \in ResultKeys) =>
        /\ Len(engineLog) = Len(atStart.engineLog) + 1
        /\ outcome.result.query = engineLog[Len(engineLog)].statement

\* the tools FUNCTIONS declares
DeclaredTools == {"ask_database", "create_support_ticket"}

\* a step before the follow-up failed: the query tool's arguments are not a
\* dict with a query, execute_query raised, or the tool is not declared
StepBeforeFollowUpFailed ==
    /\ pc = "done"
    /\ LET r    == ResponseOf(1)
           call == r.message.function_call
       IN  /\ r.kind = "ok"
           /\ r.finish_reason = "function_call"
           /\ \/ /\ call.name = "ask_database"
                 /\ (call.arguments.json # "dict" \/ ~call.arguments.query.has)
              \/ /\ call.name = "ask_database"
                 /\ toolRuns = <<ToolRun("ask_database", FALSE)>>
              \/ call.name \notin DeclaredTools

\* C16: when a step before the follow-up fails, run_agent returns a result
\* that holds only an error, exactly one model call has been made in the
\* invocation, and no ticket was written.
C16_EarlyFailureErrorOnly ==
    StepBeforeFollowUpFailed =>
        /\ outcome.kind = "returned"
        /\ ResultKeys = {"error"}
        /\ Len(modelCalls) = 1
        /\ ticketFile = atStart.ticketFile

\* C16 witness: the engine rejected the statement of a second invocation,
\* after a first one that wrote a ticket.
C16_Witness ==
    /\ StepBeforeFollowUpFailed
    /\ runs = 2
    /\ execOut.kind = "sqlite3.Error"
    /\ toolRuns = <<ToolRun("ask_database", FALSE)>>
    /\ tickets # <<>>

(***************************************************************************)
(* Properties of the statements that reach the dataset engine.             *)
(***************************************************************************)
\* C15: every statement handed to the dataset engine for a model-generated
\* query begins, after leading whitespace and without regard to case, with
\* select or with, in execute_query (streamlit_app.py) and in ask_database
\* (responsesAI.py) alike.
C15_OnlySelectOrWithExecuted ==
    \A i \in 1..Len(engineLog) :
        \/ BeginsWithKeyword(engineLog[i].statement, KwSelect)
        \/ BeginsWithKeyword(engineLog[i].statement, KwWith)

(***************************************************************************)
(* Properties of the course of a run_agent invocation.                     *)
(***************************************************************************)
\* the first response was a plain answer
PlainTextFirst ==
    /\ Len(modelCalls) >= 1
    /\ ResponseOf(1).kind = "ok"
    /\ ResponseOf(1).finish_reason # "function_call"

C17_Bounded ==
    /\ Len(modelCalls) <= 2
    /\ Len(toolRuns) <= 1
    /\ (Len(modelCalls) >= 1 => modelCalls[1].functions)
    /\ (Len(modelCalls) = 2 =>
           (~modelCalls[2].functions /\ Len(toolRuns) = 1 /\ toolRuns[1].ok))
    /\ (PlainTextFirst =>
           /\ pc = "done"
           /\ outcome = Returned([text |-> ResponseOf(1).message.content])
           /\ toolRuns = <<>>
           /\ Len(modelCalls) = 1)

\* C17: every run_agent invocation ends, after at most two model calls and
\* at most one tool call: the first model call carries the tool
\* declarations, the second carries none and is made only after a tool has
\* completed, and a plain-text first response ends the invocation with that
\* text, no tool call and no second model call.
C17_EndsWithinTwoCalls ==
    /\ []C17_Bounded
    /\ ((pc \notin {"idle", "done"}) ~> (pc = "done"))

\* C17 witness: a second invocation has ended after two model calls and one
\* tool call.
C17_Witness ==
    /\ pc = "done"
    /\ runs = 2
    /\ Len(modelCalls) = 2
    /\ Len(toolRuns) = 1

IsPrefix(a, b) == Len(a) <= Len(b) /\ SubSeq(b, 1, Len(a)) = a

\* [system instructions, user question]
OpeningMessages ==
    << [role |-> "system", name |-> "", content |-> SYSTEM_PROMPT, function_call |-> NoCall],
       [role |-> "user", name |-> "", content |-> question, function_call |-> NoCall] >>

\* the serialized output of the tool that ran
SerializedToolOutput ==
    IF toolRuns[1].name = "ask_database"
    THEN json_dumps_result(EngineColumns, execOut.rows)
    ELSE json_dumps_ticket(LastTicket.ticket)

C18_Conversation ==
    /\ (pc # "idle" => IsPrefix(OpeningMessages, messages))
    /\ (Len(modelCalls) >= 1 => modelCalls[1].messages = OpeningMessages)
    /\ (Len(modelCalls) = 2 =>
           /\ ResponseOf(1).message.function_call.name = toolRuns[1].name
           /\ modelCalls[2].messages =
                  OpeningMessages \o
                  << ResponseOf(1).message,
                     [role |-> "function", name |-> toolRuns[1].name,
                      content |-> SerializedToolOutput, function_call |-> NoCall] >>)

C18_Step ==
    /\ (runs' = runs => IsPrefix(messages, messages'))
    /\ (runs' # runs => Len(messages') = 2)

\* C18: the conversation of an invocation changes only by appending and is
\* not shared between invocations: it starts as [system instructions, user
\* question], and when the second model call is made it is those two
\* messages, then the assistant's tool-call message, then one function
\* message holding the serialized output of the tool that ran.
C18_ConversationAppendOnly ==
    /\ []C18_Conversation
    /\ [][C18_Step]_vars

\* C18 witness: the second model call of a second invocation, after a query
\* that produced a row, with a ticket left by the first invocation.
C18_Witness ==
    /\ runs = 2
    /\ Len(modelCalls) = 2
    /\ toolRuns[1].name = "ask_database"
    /\ execOut.rows # <<>>
    /\ Len(messages) = 4
    /\ tickets # <<>>

\* C20: every result run_agent returns holds exactly one of error and text;
\* one with error holds neither ticket nor query; ticket and rows never come
\* together; and query comes only with text, columns and rows.
C20_ResultShape ==
    HasReturned =>
        /\ (("error" \in ResultKeys) # ("text" \in ResultKeys))
        /\ ("error" \in ResultKeys =>
               ("ticket" \notin ResultKeys /\ "query" \notin ResultKeys))
        /\ ~("ticket" \in ResultKeys /\ "rows" \in ResultKeys)
        /\ ("query" \in ResultKeys => {"text", "columns", "rows"} \subseteq ResultKeys)

\* C20 witness: a result with an error next to the rows of a query.
C20_Witness ==
    /\ HasReturned
    /\ ResultKeys = {"error", "columns", "rows"}
    /\ outcome.result.rows # <<>>

(***************************************************************************)
(* Properties of the ticket file under concurrent calls.                   *)
(***************************************************************************)
\* the lines of a text, each with its line break
LinesOf(content) ==
    LET parts == SplitAt(content, "\n")
    IN  [k \in 1..(Len(parts) - 1) |-> parts[k] \o <<"\n">>]

\* C19: whatever the interleaving of concurrent create_support_ticket
\* calls, also when the file does not exist at first: every line whose call
\* has returned is a line of the file, the header is the first line of the
\* file and occurs only there, and the file holds nothing else.
C19_LogAppendOnly ==
    ticketFile.exists =>
        LET lines == LinesOf(ticketFile.content)
        IN  /\ Len(lines) >= 1
            /\ lines[1] = TicketHeader
            /\ \A k \in 2..Len(lines) : lines[k] # TicketHeader
            /\ \A i \in 1..Len(completed) :
                  \E k \in 2..Len(lines) : lines[k] = completed[i]
            /\ Len(lines) = Len(completed) + 1

=============================================================================
